---- MODULE Spec2Model ----
(***************************************************************************)
(* The neuroloopy dashboard relay (src/neuroloopy/dashboard/server.js):    *)
(* five POST endpoints store the latest record of a channel in latestData  *)
(* and broadcast it to the WebSocket clients; a new client gets a replay   *)
(* of the populated channels; two GET endpoints report latestData.         *)
(*                                                                         *)
(* Every handler runs to completion on the Node.js event loop, so each     *)
(* handler is one action.                                                  *)
(***************************************************************************)
EXTENDS Integers, Sequences, FiniteSets

(***************************************************************************)
(* Bounds of the model.                                                    *)
(***************************************************************************)
\* POST requests handled in one run
MaxSubmits == 2
\* WebSocket connections accepted in one run
MaxConns == 2
\* messages sent by the observers in one run
MaxUplink == 1

(***************************************************************************)
(* JavaScript values of a JSON request body.  A value is a record          *)
(*   t : the type tag,   n : the number, in thousandths,                   *)
(*   b : the boolean,    s : the string, one character per element,        *)
(*   a : the elements of an array (values without the field a).            *)
(* NaN is the number that a failed numeric conversion returns.             *)
(***************************************************************************)
JV(t, n, b, s, a) == [t |-> t, n |-> n, b |-> b, s |-> s, a |-> a]

Undefined == JV("undefined", 0, FALSE, <<>>, <<>>)
Null == JV("null", 0, FALSE, <<>>, <<>>)
NaN == JV("NaN", 0, FALSE, <<>>, <<>>)
Object == JV("object", 0, FALSE, <<>>, <<>>)
Bool(b) == JV("boolean", 0, b, <<>>, <<>>)
\* the number m/1000
Milli(m) == JV("number", m, FALSE, <<>>, <<>>)
Num(i) == Milli(i * 1000)
Str(s) == JV("string", 0, FALSE, s, <<>>)

Elem(v) == [t |-> v.t, n |-> v.n, b |-> v.b, s |-> v.s]
Lift(e) == JV(e.t, e.n, e.b, e.s, <<>>)
\* the array of the values in the sequence vs
Arr(vs) == JV("array", 0, FALSE, <<>>, [i \in 1..Len(vs) |-> Elem(vs[i])])

IsInteger(v) == v.t = "number" /\ v.n % 1000 = 0

(***************************************************************************)
(* ToString, the conversion parseFloat and parseInt apply to an argument   *)
(* that is not a string.                                                   *)
(***************************************************************************)
DigitChar(d) ==
    CASE d = 0 -> "0" [] d = 1 -> "1" [] d = 2 -> "2" [] d = 3 -> "3"
      [] d = 4 -> "4" [] d = 5 -> "5" [] d = 6 -> "6" [] d = 7 -> "7"
      [] d = 8 -> "8" [] d = 9 -> "9"

RECURSIVE NatToChars(_)
NatToChars(k) ==
    IF k < 10 THEN <<DigitChar(k)>>
    ELSE NatToChars(k \div 10) \o <<DigitChar(k % 10)>>

\* the fraction without trailing zeros, from its three digits
FracDigitsToChars(d1, d2, d3) ==
    IF d3 # 0 THEN <<".", DigitChar(d1), DigitChar(d2), DigitChar(d3)>>
    ELSE IF d2 # 0 THEN <<".", DigitChar(d1), DigitChar(d2)>>
    ELSE IF d1 # 0 THEN <<".", DigitChar(d1)>>
    ELSE <<>>

\* the fraction f/1000
FracToChars(f) == FracDigitsToChars(f \div 100, (f \div 10) % 10, f % 10)

UnsignedToChars(u) == NatToChars(u \div 1000) \o FracToChars(u % 1000)

NumberToChars(m) ==
    IF m < 0 THEN <<"-">> \o UnsignedToChars(-m) ELSE UnsignedToChars(m)

ScalarToChars(e) ==
    CASE e.t = "undefined" -> <<"u", "n", "d", "e", "f", "i", "n", "e", "d">>
      [] e.t = "null" -> <<"n", "u", "l", "l">>
      [] e.t = "NaN" -> <<"N", "a", "N">>
      [] e.t = "object" ->
            <<"[", "o", "b", "j", "e", "c", "t", " ", "O", "b", "j", "e", "c", "t", "]">>
      [] e.t = "boolean" ->
            IF e.b THEN <<"t", "r", "u", "e">> ELSE <<"f", "a", "l", "s", "e">>
      [] e.t = "number" -> NumberToChars(e.n)
      [] e.t = "string" -> e.s

\* Array.prototype.join(","): null and undefined elements give the empty string
RECURSIVE JoinChars(_, _)
JoinChars(a, i) ==
    IF i > Len(a) THEN <<>>
    ELSE (IF i > 1 THEN <<",">> ELSE <<>>)
         \o (IF a[i].t \in {"undefined", "null"} THEN <<>> ELSE ScalarToChars(a[i]))
         \o JoinChars(a, i + 1)

ToStr(v) == IF v.t = "array" THEN JoinChars(v.a, 1) ELSE ScalarToChars(v)

(***************************************************************************)
(* parseFloat and parseInt: the longest numeric prefix of the string,      *)
(* after leading blanks, or NaN when there is none.  Exponents and the     *)
(* hexadecimal prefix of parseInt are not modelled.                        *)
(***************************************************************************)
Digits == {"0", "1", "2", "3", "4", "5", "6", "7", "8", "9"}

DigitVal(c) ==
    CASE c = "0" -> 0 [] c = "1" -> 1 [] c = "2" -> 2 [] c = "3" -> 3
      [] c = "4" -> 4 [] c = "5" -> 5 [] c = "6" -> 6 [] c = "7" -> 7
      [] c = "8" -> 8 [] c = "9" -> 9

RECURSIVE SkipBlanks(_, _)
SkipBlanks(s, i) ==
    IF i <= Len(s) /\ s[i] = " " THEN SkipBlanks(s, i + 1) ELSE i

\* the index after the run of digits that starts at i
RECURSIVE DigitsEnd(_, _)
DigitsEnd(s, i) ==
    IF i <= Len(s) /\ s[i] \in Digits THEN DigitsEnd(s, i + 1) ELSE i

\* the value of the digits s[i] .. s[j-1]
RECURSIVE DigitsValue(_, _, _)
DigitsValue(s, i, j) ==
    IF j <= i THEN 0
    ELSE DigitsValue(s, i, j - 1) * 10 + DigitVal(s[j - 1])

\* the digit s[i] of the fraction that ends before j, or 0
FractionDigit(s, i, j) == IF i < j THEN DigitVal(s[i]) ELSE 0

\* the first three digits of the fraction s[i] .. s[j-1], as thousandths
FractionValue(s, i, j) ==
    FractionDigit(s, i, j) * 100 + FractionDigit(s, i + 1, j) * 10 + FractionDigit(s, i + 2, j)

HasSign(s, i) == i <= Len(s) /\ s[i] \in {"-", "+"}

Signed(s, i, mag) == IF i <= Len(s) /\ s[i] = "-" THEN -mag ELSE mag

\* the number whose integer digits are s[i1] .. s[i2-1] and whose fraction
\* digits, after a point at i2, are s[i2+1] .. s[i3-1]
DecimalAt(s, i0, i1, i2, i3) ==
    IF (i2 - i1) + (IF i3 > i2 THEN i3 - (i2 + 1) ELSE 0) = 0 THEN NaN
    ELSE Milli(Signed(s, i0, DigitsValue(s, i1, i2) * 1000
                             + (IF i3 > i2 THEN FractionValue(s, i2 + 1, i3) ELSE 0)))

FractionEnd(s, i2) ==
    IF i2 <= Len(s) /\ s[i2] = "." THEN DigitsEnd(s, i2 + 1) ELSE i2

DecimalFromDigits(s, i0, i1, i2) == DecimalAt(s, i0, i1, i2, FractionEnd(s, i2))

DecimalFrom(s, i0, i1) == DecimalFromDigits(s, i0, i1, DigitsEnd(s, i1))

DecimalPrefix(s, i0) == DecimalFrom(s, i0, IF HasSign(s, i0) THEN i0 + 1 ELSE i0)

StringToFloat(s) == DecimalPrefix(s, SkipBlanks(s, 1))

parseFloat(v) == StringToFloat(ToStr(v))

IntegerAt(s, i0, i1, i2) ==
    IF i2 = i1 THEN NaN ELSE Num(Signed(s, i0, DigitsValue(s, i1, i2)))

IntegerFrom(s, i0, i1) == IntegerAt(s, i0, i1, DigitsEnd(s, i1))

IntegerPrefix(s, i0) == IntegerFrom(s, i0, IF HasSign(s, i0) THEN i0 + 1 ELSE i0)

StringToInt(s) == IntegerPrefix(s, SkipBlanks(s, 1))

parseInt(v) == StringToInt(ToStr(v))

\* Boolean(v) and the truthiness that ! tests
Truthy(v) ==
    CASE v.t \in {"undefined", "null", "NaN"} -> FALSE
      [] v.t = "boolean" -> v.b
      [] v.t = "number" -> v.n # 0
      [] v.t = "string" -> Len(v.s) > 0
      [] OTHER -> TRUE

Boolean(v) == Bool(Truthy(v))

IsArray(v) == v.t = "array"

\* params.map(p => parseFloat(p))
MapParseFloat(v) ==
    JV("array", 0, FALSE, <<>>, [i \in 1..Len(v.a) |-> Elem(parseFloat(Lift(v.a[i])))])

(***************************************************************************)
(* JSON.stringify followed by the receiver's JSON.parse: NaN is written as *)
(* null, and a key whose value is undefined is left out.                   *)
(***************************************************************************)
WireElem(e) == IF e.t \in {"NaN", "undefined"} THEN Elem(Null) ELSE e

Wire(v) ==
    IF v.t = "NaN" THEN Null
    ELSE IF v.t = "array"
         THEN JV("array", 0, FALSE, <<>>, [i \in 1..Len(v.a) |-> WireElem(v.a[i])])
         ELSE v

(***************************************************************************)
(* The channels, in the order of the replay in wss.on('connection'), and   *)
(* the key of each channel's payload field.                                *)
(***************************************************************************)
ChannelOrder == <<"clf_data", "mc_data", "feedback_status", "run_number", "feedback_number">>

Channels == {ChannelOrder[i] : i \in 1..Len(ChannelOrder)}

PayloadKey(ch) ==
    CASE ch = "mc_data" -> "params"
      [] ch = "feedback_status" -> "sent"
      [] OTHER -> "value"

(***************************************************************************)
(* Request bodies.  A body is the record of the fields the handlers read   *)
(* (req.body after express.json()); a field the body lacks is undefined.   *)
(* timestamp is a field a producer may add; no handler reads it.           *)
(***************************************************************************)
Body(value, params, sent, rep, timestamp) ==
    [value |-> value, params |-> params, sent |-> sent, rep |-> rep, timestamp |-> timestamp]

ValueBody(value, rep) == Body(value, Undefined, Undefined, rep, Undefined)
ParamsBody(params, rep) == Body(Undefined, params, Undefined, rep, Undefined)
SentBody(sent, rep) == Body(Undefined, Undefined, sent, rep, Undefined)

\* the field of the body that carries the payload of channel ch
PayloadOf(ch, body) ==
    CASE ch = "mc_data" -> body.params
      [] ch = "feedback_status" -> body.sent
      [] OTHER -> body.value

Params6 == Arr(<<Milli(1), Milli(-2), Milli(3), Num(0), Num(0), Num(0)>>)
Params5 == Arr(<<Milli(1), Milli(-2), Milli(3), Num(0), Num(0)>>)
Params0 == Arr(<<>>)
Params6Bad == Arr(<<Milli(1), Str(<<"x">>), Milli(3), Num(0), Num(0), Num(0)>>)

StrAbc == Str(<<"a", "b", "c">>)
StrFalse == Str(<<"f", "a", "l", "s", "e">>)

Bodies(ch) ==
    CASE ch = "clf_data" ->
            { ValueBody(Milli(750), Num(1)), ValueBody(Num(0), Num(0)),
              Body(Milli(750), Undefined, Undefined, Num(1), Num(9)),
              ValueBody(Undefined, Num(1)), ValueBody(Milli(750), Undefined),
              ValueBody(StrAbc, Num(1)), ValueBody(Milli(750), StrAbc) }
      [] ch = "mc_data" ->
            { ParamsBody(Params6, Num(1)),
              ParamsBody(Undefined, Num(1)), ParamsBody(Params6, Undefined),
              ParamsBody(Params5, Num(1)), ParamsBody(Params0, Num(1)),
              ParamsBody(StrAbc, Num(1)), ParamsBody(Params6Bad, Num(1)) }
      [] ch = "feedback_status" ->
            { SentBody(Bool(TRUE), Num(1)), SentBody(Bool(FALSE), Num(0)),
              SentBody(Undefined, Num(1)), SentBody(Bool(TRUE), Undefined),
              SentBody(StrFalse, Num(1)), SentBody(Null, Num(1)) }
      [] ch = "run_number" ->
            { ValueBody(Num(3), Num(1)), ValueBody(Num(0), Num(0)),
              ValueBody(Undefined, Num(1)), ValueBody(Num(3), Undefined),
              ValueBody(StrAbc, Num(1)), ValueBody(Milli(1500), Num(1)) }
      [] ch = "feedback_number" ->
            { ValueBody(Num(12), Num(1)),
              ValueBody(Undefined, Num(1)), ValueBody(Num(12), Undefined),
              ValueBody(StrAbc, Num(1)) }

(***************************************************************************)
(* State.                                                                  *)
(***************************************************************************)
Conns == 1..MaxConns

VARIABLES
    latestData,  \* channel -> the latest record, or null
    clients,     \* the Set of WebSocket clients, in insertion order
    readyState,  \* connection -> NONE (not yet accepted), OPEN, CLOSING, CLOSED
    handlers,    \* connection -> its close and error handlers are registered
    inbox,       \* connection -> the messages sent to it, as the peer parses them
    now,         \* the reading of the server clock
    served,      \* the number of POST requests handled
    res,         \* the response to the last HTTP request
    server,      \* listening, closing or stopping (server.close() was called), exited
    uplink,      \* the number of messages the observers have sent to the server
    basic        \* the store, clients, sent messages and last response of the
                 \* three-channel server (src/server.js) when one runs beside
                 \* this one, else <<>>

vars == <<latestData, clients, readyState, handlers, inbox, now, served, res, server, uplink,
          basic>>

\* latestData.<channel> = null
NullEntry == [null |-> TRUE, payload |-> Undefined, rep |-> Undefined, timestamp |-> 0, id |-> 0]

\* an object { <payload key>: payload, rep, timestamp }; id is the ordinal of the
\* request that wrote it (history, not a field of the object)
Record(payload, rep, timestamp, id) ==
    [null |-> FALSE, payload |-> payload, rep |-> rep, timestamp |-> timestamp, id |-> id]

\* src/server.js declares three channels
BasicChannelOrder == <<"clf_data", "mc_data", "feedback_status">>

BasicChannels == {BasicChannelOrder[i] : i \in 1..Len(BasicChannelOrder)}

\* the three-channel server after construction
BasicInit ==
    [latestData |-> [ch \in BasicChannels |-> NullEntry],
     clients |-> <<>>,
     inbox |-> [c \in Conns |-> <<>>],
     res |-> [status |-> 0, json |-> [none |-> TRUE]]]

\* the state after construction, beside a three-channel server in state b
InitBeside(b) ==
    /\ latestData = [ch \in Channels |-> NullEntry]
    /\ clients = <<>>
    /\ readyState = [c \in Conns |-> "NONE"]
    /\ handlers = [c \in Conns |-> FALSE]
    /\ inbox = [c \in Conns |-> <<>>]
    /\ now = 0
    /\ served = 0
    /\ res = [status |-> 0, json |-> [none |-> TRUE]]
    /\ server = "listening"
    /\ uplink = 0
    /\ basic = b

\* the five-channel server alone: there is no three-channel server
Init == InitBeside(<<>>)

\* both servers after construction
InitVariants == InitBeside(BasicInit)

(***************************************************************************)
(* The POST handlers.                                                      *)
(***************************************************************************)
\* a variant that does not test rep
MissingPayloadOnly(ch, body) ==
    IF ch = "mc_data"
    THEN ~Truthy(body.params) \/ ~IsArray(body.params)
    ELSE PayloadOf(ch, body) = Undefined

\* a variant that also refuses a rep lower than the one stored
MissingOrStale(ch, body) ==
    \/ IF ch = "mc_data"
       THEN ~Truthy(body.params) \/ ~IsArray(body.params) \/ body.rep = Undefined
       ELSE PayloadOf(ch, body) = Undefined \/ body.rep = Undefined
    \/ ~latestData[ch].null /\ body.rep.n < latestData[ch].rep.n

\* a variant that tests the fields for truthiness
MissingFalsy(ch, body) ==
    IF ch = "mc_data"
    THEN ~Truthy(body.params) \/ ~IsArray(body.params) \/ ~Truthy(body.rep)
    ELSE ~Truthy(PayloadOf(ch, body)) \/ ~Truthy(body.rep)

\* the test that answers 400
MissingFields(ch, body) ==
    IF ch = "mc_data"
    THEN ~Truthy(body.params) \/ ~IsArray(body.params) \/ body.rep = Undefined
    ELSE PayloadOf(ch, body) = Undefined \/ body.rep = Undefined

MissingError(ch) ==
    CASE ch = "mc_data" -> "Missing required fields: params (array), rep"
      [] ch = "feedback_status" -> "Missing required fields: sent (boolean), rep"
      [] OTHER -> "Missing required fields: value, rep"

SuccessMessage(ch) ==
    CASE ch = "clf_data" -> "Classifier data received"
      [] ch = "mc_data" -> "Motion correction data received"
      [] ch = "feedback_status" -> "Neurofeedback status received"
      [] ch = "run_number" -> "Run number received"
      [] ch = "feedback_number" -> "Feedback number received"

\* a variant that converts every numeric payload with parseInt
CoercePayloadInt(ch, v) ==
    CASE ch = "mc_data" -> MapParseFloat(v)
      [] ch = "feedback_status" -> Boolean(v)
      [] OTHER -> parseInt(v)

\* the conversion of the payload field
CoercePayload(ch, v) ==
    CASE ch = "clf_data" -> parseFloat(v)
      [] ch = "mc_data" -> MapParseFloat(v)
      [] ch = "feedback_status" -> Boolean(v)
      [] ch = "run_number" -> parseInt(v)
      [] ch = "feedback_number" -> parseInt(v)

\* a variant that takes the timestamp of the body when there is one
TimestampOfProducer(body, clock) ==
    IF body.timestamp.t = "number" THEN body.timestamp.n ELSE clock

\* timestamp: new Date().toISOString()
Timestamp(body, clock) == clock

\* a variant that clears the channel when the payload is falsy
NewRecordOrNull(ch, body, clock, id) ==
    IF Truthy(PayloadOf(ch, body))
    THEN Record(CoercePayload(ch, PayloadOf(ch, body)), parseInt(body.rep), Timestamp(body, clock), id)
    ELSE NullEntry

\* the object assigned to latestData.<channel>
NewRecord(ch, body, clock, id) ==
    Record(CoercePayload(ch, PayloadOf(ch, body)), parseInt(body.rep), Timestamp(body, clock), id)

\* the argument of broadcast(), read back from latestData, as a client parses it
BroadcastEvent(ld, ch) ==
    [type |-> ch, payload |-> Wire(ld[ch].payload), rep |-> Wire(ld[ch].rep),
     timestamp |-> ld[ch].timestamp, id |-> ld[ch].id]

\* a variant that stamps the replay with the time of the connection
ReplayEventNow(ld, ch) ==
    [type |-> ch, payload |-> Wire(ld[ch].payload), rep |-> Undefined,
     timestamp |-> now, id |-> ld[ch].id]

\* the message of the replay: it has no rep key
ReplayEvent(ld, ch) ==
    [type |-> ch, payload |-> Wire(ld[ch].payload), rep |-> Undefined,
     timestamp |-> ld[ch].timestamp, id |-> ld[ch].id]

\* clients.forEach(client => { if (client.readyState === OPEN) client.send(message) })
\* from position i on; thrower is the client whose send() raises (0: none).
\* The exception leaves forEach, so the clients after the thrower are not visited.
RECURSIVE forEachSend(_, _, _, _, _, _)
forEachSend(cl, i, rs, inb, msg, thrower) ==
    IF i > Len(cl) THEN [inbox |-> inb, threw |-> FALSE]
    ELSE IF rs[cl[i]] # "OPEN" THEN forEachSend(cl, i + 1, rs, inb, msg, thrower)
    ELSE IF cl[i] = thrower THEN [inbox |-> inb, threw |-> TRUE]
    ELSE forEachSend(cl, i + 1, rs, [inb EXCEPT ![cl[i]] = Append(@, msg)], msg, thrower)

\* a variant that leaves the loop after the first client
broadcastFirstOnly(cl, rs, inb, msg, thrower) ==
    forEachSend(SubSeq(cl, 1, IF Len(cl) > 0 THEN 1 ELSE 0), 1, rs, inb, msg, thrower)

\* a variant that goes through the clients twice
broadcastTwice(cl, rs, inb, msg, thrower) ==
    forEachSend(cl, 1, rs, forEachSend(cl, 1, rs, inb, msg, thrower).inbox, msg, thrower)

\* a variant that does not look at readyState
broadcastAnyState(cl, rs, inb, msg, thrower) ==
    forEachSend(cl, 1, [c \in DOMAIN rs |-> "OPEN"], inb, msg, thrower)

broadcast(cl, rs, inb, msg, thrower) == forEachSend(cl, 1, rs, inb, msg, thrower)

Reply(status, json) == [status |-> status, json |-> json]

\* a variant that assigns only after broadcast() has returned
StoreAfterSuccess(before, assigned, threw) == IF threw THEN before ELSE assigned

\* a variant that replaces the whole store by the one new record
StoreAfterOnlyNew(before, assigned, threw) ==
    [ch \in Channels |-> IF assigned[ch] = before[ch] THEN NullEntry ELSE assigned[ch]]

\* a variant that merges the new record into the old one, whose timestamp stays
StoreAfterMerge(before, assigned, threw) ==
    [ch \in Channels |->
        IF before[ch].null THEN assigned[ch]
        ELSE [assigned[ch] EXCEPT !.timestamp = before[ch].timestamp]]

\* latestData after the handler: the assignment precedes broadcast(), so it
\* stays when broadcast() throws
StoreAfter(before, assigned, threw) == assigned

OpenClients == {c \in Conns : \E i \in 1..Len(clients) : clients[i] = c /\ readyState[c] = "OPEN"}

\* the end of a handler that passed the test: `assigned` is latestData after
\* the assignment, `out` the result of broadcast()
Respond(ch, assigned, out) ==
    /\ latestData' = StoreAfter(latestData, assigned, out.threw)
    /\ inbox' = out.inbox
    /\ res' = IF out.threw
              THEN Reply(500, [error |-> "Internal server error"])
              ELSE Reply(200, [success |-> TRUE, message |-> SuccessMessage(ch)])

StoreAndBroadcast(ch, assigned, thrower) ==
    Respond(ch, assigned,
            broadcast(clients, readyState, inbox, BroadcastEvent(assigned, ch), thrower))

\* app.post('/<ch>') with request body `body`
Post(ch, body, thrower) ==
    /\ server # "exited"
    /\ served < MaxSubmits
    /\ served' = served + 1
    /\ IF MissingFields(ch, body)
       THEN /\ res' = Reply(400, [error |-> MissingError(ch)])
            /\ UNCHANGED <<latestData, inbox>>
       ELSE StoreAndBroadcast(ch,
                [latestData EXCEPT ![ch] = NewRecord(ch, body, now, served + 1)], thrower)
    /\ UNCHANGED <<clients, readyState, handlers, now, server, uplink>>

\* a POST to this server alone
Submit(ch, body, thrower) == Post(ch, body, thrower) /\ UNCHANGED basic

(***************************************************************************)
(* The GET handlers.                                                       *)
(***************************************************************************)
\* res.json of a record or null
WireEntry(e) ==
    IF e.null THEN NullEntry
    ELSE Record(Wire(e.payload), Wire(e.rep), e.timestamp, e.id)

\* a variant that answers the classifier channel only
LatestDataOnlyClf ==
    [ch \in Channels |-> IF ch = "clf_data" THEN WireEntry(latestData[ch]) ELSE NullEntry]

\* app.get('/api/latest-data'): res.json(latestData)
LatestDataResponse == [ch \in Channels |-> WireEntry(latestData[ch])]

\* a variant that projects a record on its payload and timestamp
HealthEntryNoRep(e) ==
    IF ~e.null THEN Record(e.payload, Undefined, e.timestamp, e.id) ELSE NullEntry

\* app.get('/health'): each channel is copied field by field, or null
HealthEntry(e) ==
    IF ~e.null THEN Record(e.payload, e.rep, e.timestamp, e.id) ELSE NullEntry

\* a variant that counts every connection accepted so far
HealthResponseAccepted ==
    [status |-> "ok", timestamp |-> now,
     connectedClients |-> Cardinality({c \in Conns : readyState[c] # "NONE"}),
     latestData |-> [ch \in Channels |-> WireEntry(HealthEntry(latestData[ch]))]]

HealthResponse ==
    [status |-> "ok", timestamp |-> now, connectedClients |-> Len(clients),
     latestData |-> [ch \in Channels |-> WireEntry(HealthEntry(latestData[ch]))]]

\* a variant that hands the records over and empties the store
PollAndReset ==
    /\ server # "exited"
    /\ res' = Reply(200, LatestDataResponse)
    /\ latestData' = [ch \in Channels |-> NullEntry]
    /\ UNCHANGED <<clients, readyState, handlers, inbox, now, served, server, uplink, basic>>

GetLatestData ==
    /\ server # "exited"
    /\ res' = Reply(200, LatestDataResponse)
    /\ UNCHANGED <<latestData, clients, readyState, handlers, inbox, now, served, server, uplink>>

\* a GET /api/latest-data to this server alone
Poll == GetLatestData /\ UNCHANGED basic

Health ==
    /\ server # "exited"
    /\ res' = Reply(200, HealthResponse)
    /\ UNCHANGED <<latestData, clients, readyState, handlers, inbox, now, served, server, uplink, basic>>

(***************************************************************************)
(* The WebSocket connections.                                              *)
(***************************************************************************)
\* the channels with a record, in the order of the replay
RECURSIVE PopulatedFrom(_, _)
PopulatedFrom(ld, i) ==
    IF i > Len(ChannelOrder) THEN <<>>
    ELSE (IF ~ld[ChannelOrder[i]].null THEN <<ChannelOrder[i]>> ELSE <<>>)
         \o PopulatedFrom(ld, i + 1)

\* a variant that takes the channels in the order in which they were written
RECURSIVE ByWrite(_, _)
ByWrite(ld, chs) ==
    IF chs = {} THEN <<>>
    ELSE <<CHOOSE ch \in chs : \A o \in chs : ld[ch].id <= ld[o].id>>
         \o ByWrite(ld, chs \ {CHOOSE ch \in chs : \A o \in chs : ld[ch].id <= ld[o].id})

PopulatedByWrite(ld) == ByWrite(ld, {ch \in Channels : ~ld[ch].null})

Populated(ld) == PopulatedFrom(ld, 1)

\* a variant that sends the record of the first channel for every channel
ReplayOfFirst(ld, chs) == [i \in 1..Len(chs) |-> ReplayEvent(ld, chs[1])]

\* the messages of the replay of the channels chs
ReplayOf(ld, chs) == [i \in 1..Len(chs) |-> ReplayEvent(ld, chs[i])]

Replay(ld) == ReplayOf(ld, Populated(ld))

\* a variant that removes the oldest client, whichever socket has closed
SetDeleteHead(cl, c) == IF cl = <<>> THEN cl ELSE Tail(cl)

\* a variant that leaves the set as it is
SetKeep(cl, c) == cl

\* a variant that is not idempotent: when c is no longer there, the oldest
\* client goes
SetDeleteOrOldest(cl, c) ==
    IF \E i \in 1..Len(cl) : cl[i] = c THEN SelectSeq(cl, LAMBDA x : x # c)
    ELSE IF cl = <<>> THEN cl ELSE Tail(cl)

\* clients.delete(ws)
SetDelete(cl, c) == SelectSeq(cl, LAMBDA x : x # c)

\* the handler of process.on('uncaughtException'): server.close(...)
ServerClose(s) == IF s = "listening" THEN "closing" ELSE s

\* the connection that the next 'connection' event adds
NewConn == Cardinality({d \in Conns : readyState[d] # "NONE"}) + 1

\* wss.on('connection') for the new socket c; the first `sent` sends of the replay
\* succeed, and the next one, if there is one, raises.  An exception leaves the
\* handler before ws.on('close') and ws.on('error') and is an uncaught exception.
AcceptConn(c, replay, sent) ==
    /\ server = "listening"
    /\ c \in Conns
    /\ sent \in 0..Len(replay)
    /\ clients' = Append(clients, c)
    /\ readyState' = [readyState EXCEPT ![c] = "OPEN"]
    /\ inbox' = [inbox EXCEPT ![c] = SubSeq(replay, 1, sent)]
    /\ handlers' = [handlers EXCEPT ![c] = (sent = Len(replay))]
    /\ server' = IF sent = Len(replay) THEN server ELSE ServerClose(server)
    /\ UNCHANGED <<latestData, now, served, res, uplink>>

\* a connection to this server alone
Accept(sent) == AcceptConn(NewConn, Replay(latestData), sent) /\ UNCHANGED basic

\* the library starts the closing handshake, or the socket ends
BeginClose(c) ==
    /\ server # "exited"
    /\ readyState[c] = "OPEN"
    /\ readyState' = [readyState EXCEPT ![c] = "CLOSING"]
    /\ UNCHANGED <<latestData, clients, handlers, inbox, now, served, res, server, uplink, basic>>

\* the 'close' event of the socket; the peer is gone, and what it received
\* is no longer observed
OnClose(c) ==
    /\ server # "exited"
    /\ readyState[c] \in {"OPEN", "CLOSING"}
    /\ readyState' = [readyState EXCEPT ![c] = "CLOSED"]
    /\ clients' = IF handlers[c] THEN SetDelete(clients, c) ELSE clients
    /\ inbox' = [inbox EXCEPT ![c] = <<>>]
    /\ UNCHANGED <<latestData, handlers, now, served, res, server, uplink>>

\* the 'close' event of a socket of this server alone
CloseEvent(c) == OnClose(c) /\ UNCHANGED basic

\* the 'error' event of the socket; without a listener it is an uncaught exception
ErrorEvent(c) ==
    /\ server # "exited"
    /\ readyState[c] \in {"OPEN", "CLOSING"}
    /\ readyState' = [readyState EXCEPT ![c] = "CLOSING"]
    /\ clients' = IF handlers[c] THEN SetDelete(clients, c) ELSE clients
    /\ server' = IF handlers[c] THEN server ELSE ServerClose(server)
    /\ UNCHANGED <<latestData, handlers, inbox, now, served, res, uplink, basic>>

\* the callback of server.close(): every connection has ended
Exit ==
    /\ server = "closing"
    /\ \A c \in Conns : readyState[c] \in {"NONE", "CLOSED"}
    /\ server' = "exited"
    /\ UNCHANGED <<latestData, clients, readyState, handlers, inbox, now, served, res, uplink, basic>>

\* a variant in which the server answers a message of an observer
ClientMessageEcho(c) ==
    /\ server # "exited"
    /\ readyState[c] = "OPEN"
    /\ uplink < MaxUplink
    /\ uplink' = uplink + 1
    /\ inbox' = [inbox EXCEPT ![c] = Append(@, [type |-> "echo"])]
    /\ UNCHANGED <<latestData, clients, readyState, handlers, now, served, res, server, basic>>

\* an observer sends a message: the socket has no 'message' listener, so the
\* server does nothing with it
ClientMessage(c) ==
    /\ server # "exited"
    /\ readyState[c] = "OPEN"
    /\ uplink < MaxUplink
    /\ uplink' = uplink + 1
    /\ UNCHANGED <<latestData, clients, readyState, handlers, inbox, now, served, res, server, basic>>

\* the handler of process.on('SIGINT') and process.on('SIGTERM'):
\* server.close(...); the callback of the first server.close() decides the code
SignalClose(s) == IF s = "listening" THEN "stopping" ELSE s

\* SIGINT or SIGTERM is delivered
Signal ==
    /\ server # "exited"
    /\ server' = SignalClose(server)
    /\ UNCHANGED <<latestData, clients, readyState, handlers, inbox, now, served, res, uplink, basic>>

\* the callback of server.close() of the signal handlers: every connection has
\* ended, process.exit(0)
ExitGraceful ==
    /\ server = "stopping"
    /\ \A c \in Conns : readyState[c] \in {"NONE", "CLOSED"}
    /\ server' = "exited"
    /\ UNCHANGED <<latestData, clients, readyState, handlers, inbox, now, served, res, uplink, basic>>

\* the clock advances.  The handlers only compare and copy clock readings, so
\* one tick between two stamped records stands for any longer time.
Tick ==
    /\ server # "exited"
    /\ now < served
    /\ now' = now + 1
    /\ UNCHANGED <<latestData, clients, readyState, handlers, inbox, served, res, server, uplink, basic>>

(***************************************************************************)
(* The three-channel server, src/server.js.  Its state is the record       *)
(* `basic`; the sockets of an observer to the two servers open and close   *)
(* together (readyState), and both servers read the same clock.            *)
(***************************************************************************)
\* the test that answers 400
BasicMissingFields(ch, body) ==
    CASE ch = "clf_data" -> body.value = Undefined \/ body.rep = Undefined
      [] ch = "mc_data" ->
            ~Truthy(body.params) \/ ~IsArray(body.params) \/ body.rep = Undefined
      [] ch = "feedback_status" -> body.sent = Undefined \/ body.rep = Undefined

BasicMissingError(ch) ==
    CASE ch = "clf_data" -> "Missing required fields: value, rep"
      [] ch = "mc_data" -> "Missing required fields: params (array), rep"
      [] ch = "feedback_status" -> "Missing required fields: sent (boolean), rep"

BasicSuccessMessage(ch) ==
    CASE ch = "clf_data" -> "Classifier data received"
      [] ch = "mc_data" -> "Motion correction data received"
      [] ch = "feedback_status" -> "Neurofeedback status received"

\* the object assigned to latestData.<channel>
BasicNewRecord(ch, body, clock, id) ==
    CASE ch = "clf_data" -> Record(parseFloat(body.value), parseInt(body.rep), clock, id)
      [] ch = "mc_data" -> Record(MapParseFloat(body.params), parseInt(body.rep), clock, id)
      [] ch = "feedback_status" -> Record(Boolean(body.sent), parseInt(body.rep), clock, id)

\* the argument of broadcast(), as a client parses it
BasicBroadcastEvent(ld, ch) ==
    [type |-> ch, payload |-> Wire(ld[ch].payload), rep |-> Wire(ld[ch].rep),
     timestamp |-> ld[ch].timestamp, id |-> ld[ch].id]

\* a variant whose replay carries rep
BasicReplayEventWithRep(ld, ch) ==
    [type |-> ch, payload |-> Wire(ld[ch].payload), rep |-> Wire(ld[ch].rep),
     timestamp |-> ld[ch].timestamp, id |-> ld[ch].id]

\* the message of the replay: type, payload and timestamp
BasicReplayEvent(ld, ch) ==
    [type |-> ch, payload |-> Wire(ld[ch].payload), rep |-> Undefined,
     timestamp |-> ld[ch].timestamp, id |-> ld[ch].id]

\* the channels with a record, in the order of the replay
BasicPopulated(ld) == SelectSeq(BasicChannelOrder, LAMBDA ch : ~ld[ch].null)

BasicReplayOf(ld, chs) == [i \in 1..Len(chs) |-> BasicReplayEvent(ld, chs[i])]

BasicReplay(ld) == BasicReplayOf(ld, BasicPopulated(ld))

\* function broadcast(data): the same loop over clients
BasicBroadcast(cl, rs, inb, msg, thrower) == forEachSend(cl, 1, rs, inb, msg, thrower)

\* the end of a handler that passed the test
BasicRespond(b, ch, assigned, out) ==
    [b EXCEPT !.latestData = assigned,
              !.inbox = out.inbox,
              !.res = IF out.threw
                      THEN Reply(500, [error |-> "Internal server error"])
                      ELSE Reply(200, [success |-> TRUE, message |-> BasicSuccessMessage(ch)])]

BasicStoreAndBroadcast(b, ch, assigned, thrower) ==
    BasicRespond(b, ch, assigned,
                 BasicBroadcast(b.clients, readyState, b.inbox,
                                BasicBroadcastEvent(assigned, ch), thrower))

\* app.post('/<ch>') of the three-channel server
BasicPost(b, ch, body, thrower) ==
    IF BasicMissingFields(ch, body)
    THEN [b EXCEPT !.res = Reply(400, [error |-> BasicMissingError(ch)])]
    ELSE BasicStoreAndBroadcast(b, ch,
             [b.latestData EXCEPT ![ch] = BasicNewRecord(ch, body, now, served + 1)], thrower)

\* wss.on('connection') of the three-channel server, every send succeeding
BasicAcceptConn(b, c) ==
    [b EXCEPT !.clients = Append(@, c),
              !.inbox[c] = BasicReplay(b.latestData)]

\* the 'close' event of a socket of the three-channel server
BasicOnClose(b, c) ==
    [b EXCEPT !.clients = SelectSeq(@, LAMBDA x : x # c),
              !.inbox[c] = <<>>]

\* app.get('/api/latest-data'): res.json(latestData)
BasicLatestDataResponse(b) == [ch \in BasicChannels |-> WireEntry(b.latestData[ch])]

BasicGetLatestData(b) == [b EXCEPT !.res = Reply(200, BasicLatestDataResponse(b))]

\* the same request, connection or event at both servers
BothSubmit(ch, body, thrower) ==
    Post(ch, body, thrower) /\ basic' = BasicPost(basic, ch, body, thrower)

BothAccept(sent) ==
    /\ AcceptConn(NewConn, Replay(latestData), sent)
    /\ basic' = BasicAcceptConn(basic, NewConn)

BothClose(c) == OnClose(c) /\ basic' = BasicOnClose(basic, c)

BothPoll == GetLatestData /\ basic' = BasicGetLatestData(basic)

(***************************************************************************)
(* Spec: one observer, and producers that send the declared types or leave *)
(* fields out.                                                             *)
(***************************************************************************)
\* the declared shape of the payload of channel ch
ValidPayload(ch, v) ==
    CASE ch = "clf_data" -> v.t = "number"
      [] ch = "mc_data" ->
            v.t = "array" /\ Len(v.a) = 6 /\ \A i \in 1..Len(v.a) : v.a[i].t = "number"
      [] ch = "feedback_status" -> v.t = "boolean"
      [] OTHER -> IsInteger(v)

ValidBody(ch, body) == ValidPayload(ch, PayloadOf(ch, body)) /\ IsInteger(body.rep)

\* a required field of the channel is absent from the body
LacksField(ch, body) == PayloadOf(ch, body) = Undefined \/ body.rep = Undefined

ContractBodies(ch) == {body \in Bodies(ch) : ValidBody(ch, body) \/ LacksField(ch, body)}

Next ==
    \/ \E ch \in Channels : \E body \in ContractBodies(ch) :
            \E thrower \in OpenClients \cup {0} : Submit(ch, body, thrower)
    \/ \E sent \in 0..Len(ChannelOrder) : readyState[1] = "NONE" /\ Accept(sent)
    \/ \E c \in Conns : BeginClose(c)
    \/ \E c \in Conns : CloseEvent(c)
    \/ \E c \in Conns : ErrorEvent(c)
    \/ Exit
    \/ Tick

Spec == Init /\ [][Next]_vars

(***************************************************************************)
(* SpecAnyBody: one observer, and every request body of Bodies.            *)
(***************************************************************************)
NextAnyBody ==
    \/ \E ch \in Channels : \E body \in Bodies(ch) :
            \E thrower \in OpenClients \cup {0} : Submit(ch, body, thrower)
    \/ \E sent \in 0..Len(ChannelOrder) : readyState[1] = "NONE" /\ Accept(sent)
    \/ \E c \in Conns : BeginClose(c)
    \/ \E c \in Conns : CloseEvent(c)
    \/ \E c \in Conns : ErrorEvent(c)
    \/ Exit
    \/ Tick

SpecAnyBody == Init /\ [][NextAnyBody]_vars

(***************************************************************************)
(* SpecFanout: up to MaxConns observers that connect, start to close and   *)
(* close, and two valid request bodies.                                    *)
(***************************************************************************)
FanoutChannels == {"clf_data", "mc_data"}

FanoutBodies(ch) ==
    CASE ch = "clf_data" -> { ValueBody(Milli(750), Num(1)) }
      [] ch = "mc_data" -> { ParamsBody(Params6, Num(1)) }

NextFanout ==
    \/ \E ch \in FanoutChannels : \E body \in FanoutBodies(ch) :
            \E thrower \in OpenClients \cup {0} : Submit(ch, body, thrower)
    \/ \E sent \in 0..Len(ChannelOrder) : sent = Len(Populated(latestData)) /\ Accept(sent)
    \/ \E c \in Conns : BeginClose(c)
    \/ \E c \in Conns : CloseEvent(c)
    \/ Tick

SpecFanout == Init /\ [][NextFanout]_vars

(***************************************************************************)
(* SpecSteady: the observers and request bodies of SpecFanout, with no     *)
(* send that raises.                                                       *)
(***************************************************************************)
NextSteady ==
    \/ \E ch \in FanoutChannels : \E body \in FanoutBodies(ch) : Submit(ch, body, 0)
    \/ \E sent \in 0..Len(ChannelOrder) : sent = Len(Populated(latestData)) /\ Accept(sent)
    \/ \E c \in Conns : BeginClose(c)
    \/ \E c \in Conns : CloseEvent(c)
    \/ Tick

SpecSteady == Init /\ [][NextSteady]_vars

(***************************************************************************)
(* SpecStatus: the GET endpoints, with one observer.                       *)
(***************************************************************************)
NextStatus ==
    \/ \E ch \in Channels : \E body \in ContractBodies(ch) : Submit(ch, body, 0)
    \/ \E sent \in 0..Len(ChannelOrder) :
            readyState[1] = "NONE" /\ sent = Len(Populated(latestData)) /\ Accept(sent)
    \/ \E c \in Conns : CloseEvent(c)
    \/ Poll
    \/ Health
    \/ Tick

SpecStatus == Init /\ [][NextStatus]_vars

(***************************************************************************)
(* SpecLifecycle: up to MaxConns observers that connect, close and fail, the *)
(* status endpoint and the shutdown signals, with one request body.         *)
(***************************************************************************)
LifecycleBodies == { ValueBody(Milli(750), Num(1)) }

NextLifecycle ==
    \/ \E body \in LifecycleBodies : Submit("clf_data", body, 0)
    \/ \E sent \in 0..Len(ChannelOrder) : sent = Len(Populated(latestData)) /\ Accept(sent)
    \/ \E c \in Conns : BeginClose(c)
    \/ \E c \in Conns : CloseEvent(c)
    \/ \E c \in Conns : ErrorEvent(c)
    \/ \E c \in Conns : ClientMessage(c)
    \/ Health
    \/ Signal
    \/ ExitGraceful

SpecLifecycle == Init /\ [][NextLifecycle]_vars

\* the callback of server.close() runs once the last connection has ended, and
\* a socket that is closing gets its 'close' event; an open observer may stay
SpecLifecycleFair ==
    /\ SpecLifecycle
    /\ WF_vars(ExitGraceful)
    /\ \A c \in Conns : WF_vars(readyState[c] = "CLOSING" /\ CloseEvent(c))

(***************************************************************************)
(* SpecVariants: the five-channel and the three-channel server get the     *)
(* same submits to the three common channels, the same observers and the   *)
(* same polls; no send raises.  Per channel, a valid body and one that     *)
(* lacks a field or has a field of another type.                           *)
(***************************************************************************)
VariantBodies(ch) ==
    CASE ch = "clf_data" -> { ValueBody(Milli(750), Num(1)), ValueBody(Milli(750), Undefined) }
      [] ch = "mc_data" -> { ParamsBody(Params6, Num(1)), ParamsBody(StrAbc, Num(1)) }
      [] ch = "feedback_status" -> { SentBody(Bool(TRUE), Num(1)), SentBody(StrFalse, Num(1)) }

NextVariants ==
    \/ \E ch \in BasicChannels : \E body \in VariantBodies(ch) : BothSubmit(ch, body, 0)
    \/ \E sent \in 0..Len(ChannelOrder) : sent = Len(Populated(latestData)) /\ BothAccept(sent)
    \/ \E c \in Conns : BothClose(c)
    \/ BothPoll
    \/ Tick

SpecVariants == InitVariants /\ [][NextVariants]_vars

(***************************************************************************)
(* Properties.                                                             *)
(***************************************************************************)
\* the step handles a POST of `body` to channel ch
SubmitOf(ch, body) == \E thrower \in OpenClients \cup {0} : Submit(ch, body, thrower)

IsAck(r) == r.status = 200 /\ "success" \in DOMAIN r.json
IsClientError(r) == r.status = 400 /\ DOMAIN r.json = {"error"}

\* the event that announces the record e of channel ch, as a client parses it
EventOf(ch, e) ==
    [type |-> ch, payload |-> Wire(e.payload), rep |-> Wire(e.rep),
     timestamp |-> e.timestamp, id |-> e.id]

\* C1: a successful submit of a valid payload leaves in the store the fields of
\* the payload (a float value or parameter, an integer rep or run/feedback
\* number, a boolean sent) and a timestamp not earlier than the time of the call.
C1_SubmitStoresPayload ==
    [][served' = served + 1 =>
         \A ch \in Channels : \A body \in Bodies(ch) :
            (ValidBody(ch, body) /\ IsAck(res') /\ SubmitOf(ch, body)) =>
                /\ ~latestData'[ch].null
                /\ latestData'[ch].payload = PayloadOf(ch, body)
                /\ latestData'[ch].rep = body.rep
                /\ latestData'[ch].timestamp >= now
                /\ latestData'[ch].timestamp <= now']_vars

C1_Witness ==
    /\ IsAck(res)
    /\ latestData["clf_data"].payload = Milli(750)
    /\ latestData["clf_data"].timestamp = 0
    /\ latestData["mc_data"].payload = Params6
    /\ latestData["mc_data"].timestamp = 1

\* C2: a submit whose body lacks a required field is answered 400 with an error
\* string and changes neither the store nor the live set, and sends nothing.
C2_MissingFieldRejected ==
    [][served' = served + 1 =>
         \A ch \in Channels : \A body \in Bodies(ch) :
            (LacksField(ch, body) /\ SubmitOf(ch, body)) =>
                /\ IsClientError(res')
                /\ latestData' = latestData
                /\ clients' = clients
                /\ readyState' = readyState
                /\ inbox' = inbox]_vars

C2_Witness ==
    /\ IsClientError(res)
    /\ served = MaxSubmits
    /\ ~latestData["feedback_status"].null
    /\ OpenClients # {}

\* C3: a motion-correction submit whose params array has not exactly 6
\* elements is rejected, and the store and the connections are unaffected.
C3_ParamsLengthRejected ==
    [][served' = served + 1 =>
         \A body \in Bodies("mc_data") :
            (IsArray(body.params) /\ Len(body.params.a) # 6 /\ SubmitOf("mc_data", body)) =>
                /\ IsClientError(res')
                /\ latestData' = latestData
                /\ clients' = clients
                /\ inbox' = inbox]_vars

\* every required field is present and one is not of the declared type
NotCoercible(ch, body) ==
    /\ ~LacksField(ch, body)
    /\ \/ body.rep.t # "number"
       \/ CASE ch = "mc_data" ->
                  ~IsArray(body.params)
                  \/ \E i \in 1..Len(body.params.a) : body.params.a[i].t # "number"
            [] ch = "feedback_status" -> body.sent.t # "boolean"
            [] OTHER -> body.value.t # "number"

\* C4: a submit with every required field present and one of them not
\* coercible to its type is answered 400, with the store unchanged and nothing sent.
C4_NotCoercibleRejected ==
    [][served' = served + 1 =>
         \A ch \in Channels : \A body \in Bodies(ch) :
            (NotCoercible(ch, body) /\ SubmitOf(ch, body)) =>
                /\ IsClientError(res')
                /\ latestData' = latestData
                /\ inbox' = inbox]_vars

WellFormed(ch, e) ==
    /\ ValidPayload(ch, e.payload)
    /\ IsInteger(e.rep)
    /\ e.timestamp \in 0..now

\* C5: every entry of the store is null or a complete record of the shape of
\* its channel: numbers that are not NaN, 6 numeric params, a boolean sent.
C5_StoreWellFormed ==
    \A ch \in Channels : latestData[ch].null \/ WellFormed(ch, latestData[ch])

\* C6: a connection accepted when N channels hold a record receives, when no
\* send of its replay raises, exactly N replay events: one for each populated
\* channel, with the payload and the timestamp of the stored record, and none
\* for a channel that is null.
C6_ReplayOnePerChannel ==
    [][\A sent \in 0..Len(ChannelOrder) :
          (sent = Cardinality({ch \in Channels : ~latestData[ch].null}) /\ Accept(sent)) =>
             LET got == inbox'[NewConn]
             IN  /\ Len(got) = Cardinality({ch \in Channels : ~latestData[ch].null})
                 /\ \A ch \in Channels :
                       LET of == {i \in 1..Len(got) : got[i].type = ch}
                       IN  IF latestData[ch].null THEN of = {}
                           ELSE /\ Cardinality(of) = 1
                                /\ \A i \in of :
                                     /\ got[i].payload = Wire(latestData[ch].payload)
                                     /\ got[i].timestamp = latestData[ch].timestamp]_vars

C6_Witness ==
    /\ readyState[1] = "OPEN" /\ handlers[1]
    /\ Len(inbox[1]) = 2
    /\ \A i \in 1..2 : inbox[1][i].rep = Undefined /\ inbox[1][i].timestamp < now
    /\ Cardinality({ch \in Channels : ~latestData[ch].null}) = 2

\* C7: every message sent to a client, live update or replay, has the keys
\* type, payload, rep and timestamp; the replay of a record is the event that
\* announced it.
C7_EveryMessageHasRep ==
    \A c \in Conns : \A i \in 1..Len(inbox[c]) :
        LET m == inbox[c][i]
        IN  /\ m.rep # Undefined
            /\ latestData[m.type].id = m.id => m = EventOf(m.type, latestData[m.type])

Members(cl) == {cl[i] : i \in 1..Len(cl)}

\* C8 as claimed: a successful submit delivers its event once to every
\* connection in the live set.
C8_EveryMemberReceives ==
    [][served' = served + 1 =>
         \A ch \in FanoutChannels : \A body \in FanoutBodies(ch) :
            (IsAck(res') /\ SubmitOf(ch, body)) =>
                \A c \in Members(clients) :
                    inbox'[c] = Append(inbox[c], EventOf(ch, latestData'[ch]))]_vars

\* C8: a successful submit delivers its event, with the type of the channel and
\* the payload, rep and timestamp of the record just stored, once to every
\* connection of the live set whose readyState is OPEN, and nothing to the others.
C8_EveryOpenMemberReceives ==
    [][served' = served + 1 =>
         \A ch \in FanoutChannels : \A body \in FanoutBodies(ch) :
            (IsAck(res') /\ SubmitOf(ch, body)) =>
                \A c \in Conns :
                    inbox'[c] = IF c \in Members(clients) /\ readyState[c] = "OPEN"
                                THEN Append(inbox[c], EventOf(ch, latestData'[ch]))
                                ELSE inbox[c]]_vars

C8_Witness ==
    /\ IsAck(res)
    /\ Members(clients) = {1, 2}
    /\ readyState[1] = "OPEN" /\ readyState[2] = "CLOSING"
    /\ Len(inbox[1]) = 2 /\ Len(inbox[2]) = 1
    /\ inbox[1][2] = EventOf("clf_data", latestData["clf_data"])

\* C9: when a client has received the broadcast of a record of a channel, the
\* latest-data poll returns for the channel that record or a later one.
C9_StoreBeforeBroadcast ==
    \A c \in Conns : \A i \in 1..Len(inbox[c]) :
        LET m == inbox[c][i]
            e == LatestDataResponse[m.type]
        IN  m.rep # Undefined =>
                /\ ~e.null
                /\ e.id >= m.id
                /\ e.id = m.id => m = EventOf(m.type, e)

C9_Witness ==
    /\ res.status = 500
    /\ readyState[1] = "OPEN" /\ readyState[2] = "OPEN"
    /\ Len(inbox[1]) = 2 /\ Len(inbox[2]) = 1
    /\ inbox[1][2].id = 2 /\ inbox[2][1].id = 1
    /\ latestData["clf_data"].id = 2

\* C10: a send that raises on one connection does not abort the broadcast: every
\* other open connection of the live set gets the event.
C10_FailureIsolated ==
    [][served' = served + 1 =>
         \A ch \in FanoutChannels : \A body \in FanoutBodies(ch) : \A thrower \in OpenClients :
            (~MissingFields(ch, body) /\ Submit(ch, body, thrower)) =>
                \A c \in OpenClients \ {thrower} :
                    inbox'[c] = Append(inbox[c], EventOf(ch, latestData'[ch]))]_vars

\* C11: a submit of a valid payload is answered with the success
\* acknowledgment, also when a send to an observer raises during the broadcast.
C11_ValidSubmitAcked ==
    [][served' = served + 1 =>
         \A ch \in FanoutChannels : \A body \in FanoutBodies(ch) :
            \A thrower \in OpenClients \cup {0} :
                (ValidBody(ch, body) /\ Submit(ch, body, thrower)) => IsAck(res')]_vars

\* C12: a send that raises during the broadcast or during the replay discards
\* its connection: afterwards the connection is not in the live set, and every
\* other connection of the live set is still in it.
C12_FailingSendDiscards ==
    [][/\ served' = served + 1 =>
            \A ch \in Channels : \A body \in ContractBodies(ch) : \A thrower \in OpenClients :
                (~MissingFields(ch, body) /\ Submit(ch, body, thrower)) =>
                    Members(clients') = Members(clients) \ {thrower}
       /\ \A sent \in 0..Len(ChannelOrder) :
            (sent < Len(Populated(latestData)) /\ Accept(sent)) =>
                Members(clients') = Members(clients) \ {NewConn}]_vars

C14_TransportErrorKeepsServing ==
    [][(\/ \E c \in Conns : ErrorEvent(c)
        \/ \E sent \in 0..Len(ChannelOrder) : Accept(sent)) => server' = server]_vars

\* C15: the answer of the status endpoint has an entry for each of the five
\* channels: null for a channel with no record, and for the others the whole
\* record of the store, payload, rep and timestamp, as JSON carries it.
C15_HealthMirrorsStore ==
    [][Health =>
         /\ DOMAIN res'.json.latestData = Channels
         /\ \A ch \in Channels :
                res'.json.latestData[ch] =
                    IF latestData[ch].null THEN NullEntry
                    ELSE Record(Wire(latestData[ch].payload), Wire(latestData[ch].rep),
                                latestData[ch].timestamp, latestData[ch].id)]_vars

C15_Witness ==
    /\ res = Reply(200, HealthResponse)
    /\ res.json.connectedClients = 1
    /\ {ch \in Channels : res.json.latestData[ch] # NullEntry} = {"mc_data", "feedback_status"}
    /\ res.json.latestData["mc_data"].payload = Params6
    /\ res.json.latestData["feedback_status"].payload = Bool(FALSE)

\* C16: the latest-data poll and the status endpoint are pure reads: the store,
\* the live set and the state of the connections are as before, and no message
\* is sent to any observer.
C16_ReadsArePure ==
    [][(Poll \/ Health) =>
         /\ latestData' = latestData
         /\ clients' = clients
         /\ readyState' = readyState
         /\ inbox' = inbox]_vars

C16_Witness ==
    /\ res = Reply(200, LatestDataResponse)
    /\ ~latestData["clf_data"].null /\ ~latestData["run_number"].null
    /\ clients = <<1>> /\ readyState[1] = "OPEN"
    /\ Len(inbox[1]) = 2 /\ inbox[1][2].rep # Undefined

C18_EntriesNeverDeleted ==
    /\ \A ch \in Channels : latestData[ch].null
    /\ [][\A ch \in Channels : ~latestData[ch].null => ~latestData'[ch].null]_vars

C18_Witness ==
    /\ IsClientError(res)
    /\ served = 2
    /\ ~latestData["run_number"].null
    /\ readyState[1] = "CLOSED"

\* C19: a submit to a channel leaves the record, or the absence of a record, of
\* every other channel exactly as it was.
C19_OtherChannelsUntouched ==
    [][served' = served + 1 =>
         \A ch \in Channels : \A body \in ContractBodies(ch) :
            Submit(ch, body, 0) =>
                \A other \in Channels \ {ch} : latestData'[other] = latestData[other]]_vars

C19_Witness ==
    /\ {ch \in Channels : ~latestData[ch].null} = {"feedback_status", "feedback_number"}
    /\ latestData["feedback_status"] = Record(Bool(TRUE), Num(1), 0, 1)
    /\ latestData["feedback_number"] = Record(Num(12), Num(1), 1, 2)

\* C20: a valid submit to a channel that has a record replaces the record as a
\* whole: payload and rep are those of this request, the timestamp is the time
\* of this request, and nothing of the previous record is left; the record of
\* the request handled last is the one in the store.
C20_LastWriteReplacesWhole ==
    [][served' = served + 1 =>
         \A ch \in Channels :
            ~latestData[ch].null =>
                \A body \in ContractBodies(ch) :
                    (ValidBody(ch, body) /\ SubmitOf(ch, body)) =>
                        latestData'[ch] = Record(PayloadOf(ch, body), body.rep, now, served + 1)]_vars

C20_Witness ==
    /\ readyState[1] = "OPEN"
    /\ Len(inbox[1]) = 2
    /\ inbox[1][1] = EventOf("clf_data", Record(Milli(750), Num(1), 0, 1))
    /\ latestData["clf_data"] = Record(Num(0), Num(0), 1, 2)

C23_TimestampIsServers ==
    [][/\ \A ch \in Channels :
            latestData'[ch] # latestData[ch] => latestData'[ch].timestamp = now
       /\ \A c \in Conns : \A i \in (Len(inbox[c]) + 1)..Len(inbox'[c]) :
            inbox'[c][i].timestamp = latestData'[inbox'[c][i].type].timestamp]_vars

C23_Witness ==
    /\ now = 2
    /\ readyState[1] = "OPEN"
    /\ Len(inbox[1]) = 2
    /\ inbox[1][1].rep = Undefined /\ inbox[1][1].timestamp = 0
    /\ inbox[1][2] = EventOf("clf_data", latestData["clf_data"])
    /\ latestData["clf_data"].timestamp = 1

\* C24: a valid submit whose rep is lower than or equal to the rep stored for
\* its channel is acknowledged, its record replaces the stored one, and its
\* event carries its rep unchanged to every open observer.
C24_RepNeedNotIncrease ==
    [][served' = served + 1 =>
         \A ch \in Channels :
            ~latestData[ch].null =>
                \A body \in ContractBodies(ch) :
                    (/\ ValidBody(ch, body)
                     /\ body.rep.n <= latestData[ch].rep.n
                     /\ Submit(ch, body, 0)) =>
                        /\ IsAck(res')
                        /\ latestData'[ch].payload = PayloadOf(ch, body)
                        /\ latestData'[ch].rep = body.rep
                        /\ \A c \in OpenClients :
                                /\ Len(inbox'[c]) = Len(inbox[c]) + 1
                                /\ inbox'[c][Len(inbox'[c])].type = ch
                                /\ inbox'[c][Len(inbox'[c])].rep = body.rep]_vars

C24_Witness ==
    /\ IsAck(res)
    /\ readyState[1] = "OPEN"
    /\ Len(inbox[1]) = 2
    /\ inbox[1][1].type = "run_number" /\ inbox[1][1].rep = Num(1)
    /\ inbox[1][2].type = "run_number" /\ inbox[1][2].rep = Num(0)
    /\ latestData["run_number"] = Record(Num(0), Num(0), 0, 2)

\* C25: after SIGINT or SIGTERM has started the shutdown, the process
\* eventually exits (with code 0, the code of the callback registered first).
C25_ShutdownExits == (server = "stopping") ~> (server = "exited")

\* C26: a message that an observer sends to the server changes neither the
\* store nor the live set nor the state of any connection, and nothing is sent
\* or answered for it.
C26_UplinkIgnored ==
    [][\A c \in Conns :
         ClientMessage(c) =>
            /\ latestData' = latestData
            /\ clients' = clients
            /\ readyState' = readyState
            /\ inbox' = inbox
            /\ res' = res
            /\ server' = server]_vars

C26_Witness ==
    /\ uplink = 1
    /\ readyState[1] = "OPEN" /\ readyState[2] = "OPEN"
    /\ ~latestData["clf_data"].null
    /\ Len(inbox[1]) = 1 /\ Len(inbox[2]) = 1

\* C27: a submit that is answered with an error status, 400 or 500, leaves the
\* store as it was before the request, and no observer gets an event for it.
C27_ErrorLeavesNoTrace ==
    [][(served' = served + 1 /\ res'.status \in {400, 500}) =>
         /\ latestData' = latestData
         /\ inbox' = inbox]_vars

\* the positions of the messages of type ch in a sequence of messages
Received(msgs, ch) == {i \in 1..Len(msgs) : msgs[i].type = ch}

Latest(positions) == CHOOSE i \in positions : \A j \in positions : j <= i

C29_NoRecordTwice ==
    \A c \in Conns : \A i, j \in 1..Len(inbox[c]) :
        i < j => inbox[c][i].id # inbox[c][j].id

C29_Witness ==
    /\ readyState[1] = "OPEN" /\ readyState[2] = "OPEN"
    /\ inbox[1] = <<EventOf("mc_data", latestData["mc_data"]),
                    EventOf("clf_data", latestData["clf_data"])>>
    /\ Len(inbox[2]) = 2
    /\ inbox[2][1].rep = Undefined /\ inbox[2][1].id = 1
    /\ inbox[2][2] = inbox[1][2]

\* C30: every connection of the live set has its 'close' and 'error' handlers
\* registered, also when a send of its replay has raised, so that its close or
\* error removes it.
C30_MembersHaveHandlers == \A c \in Members(clients) : handlers[c]

\* C31: the removal from the live set is idempotent.  Each 'close' or 'error'
\* event of a connection whose handlers are registered leaves the live set as
\* the set before without that connection, the other members in their order;
\* the first one takes one from the reported count, and a further one of the
\* same connection, of either kind, changes neither the set nor the count.
C31_RemovalIdempotent ==
    [][\A c \in Conns :
            (handlers[c] /\ (CloseEvent(c) \/ ErrorEvent(c))) =>
                /\ Members(clients') = Members(clients) \ {c}
                /\ clients' = SelectSeq(clients, LAMBDA x : x # c)
                /\ HealthResponse'.connectedClients =
                       HealthResponse.connectedClients
                           - (IF c \in Members(clients) THEN 1 ELSE 0)
                /\ c \notin Members(clients) => clients' = clients
                /\ SetDelete(clients', c) = clients']_vars

\* the 'error' event of connection 1 has removed it and its 'close' event is
\* still to come; connection 2 is counted alone
C31_Witness ==
    /\ handlers[1] /\ readyState[1] = "CLOSING"
    /\ 1 \notin Members(clients)
    /\ Len(inbox[1]) = 1
    /\ readyState[2] = "OPEN" /\ clients = <<2>>
    /\ res = Reply(200, HealthResponse)
    /\ res.json.connectedClients = 1

\* C32: a broadcast sends only to the connections whose readyState is OPEN: a
\* member of the live set that is closing or closed is sent nothing.  The
\* handler of a submit leaves the live set as it is, and the live set changes
\* only in the 'connection' event and in the 'close' and 'error' events.
C32_BroadcastOnlyToOpen ==
    [][/\ served' = served + 1 =>
            /\ clients' = clients
            /\ \A c \in Conns : readyState[c] # "OPEN" => inbox'[c] = inbox[c]
       /\ clients' # clients =>
            \/ \E sent \in 0..Len(ChannelOrder) : Accept(sent)
            \/ \E c \in Conns : CloseEvent(c) \/ ErrorEvent(c)]_vars

\* connection 1 is closing and still in the live set: the broadcast of the
\* first record went to connection 2 alone
C32_Witness ==
    /\ clients = <<1, 2>>
    /\ readyState[1] = "CLOSING" /\ readyState[2] = "OPEN"
    /\ served = 1 /\ IsAck(res)
    /\ inbox[1] = <<>>
    /\ Len(inbox[2]) = 1
    /\ \E ch \in Channels : inbox[2][1] = EventOf(ch, latestData[ch])

\* the body has the required fields of channel ch and both are falsy
FalsyBody(ch, body) ==
    /\ ~LacksField(ch, body)
    /\ ~Truthy(PayloadOf(ch, body))
    /\ ~Truthy(body.rep)

\* C33: a submit whose required fields are present and falsy (a classifier or
\* run value 0, sent false, rep 0) is acknowledged, stored with these values
\* and broadcast to the open observers; from then on the channel is populated:
\* the status and poll answers show its record, and a connection accepted
\* later gets its replay.
C33_FalsyFieldsAccepted ==
    [][/\ served' = served + 1 =>
            \A ch \in Channels \ {"mc_data"} : \A body \in ContractBodies(ch) :
                (FalsyBody(ch, body) /\ Submit(ch, body, 0)) =>
                    /\ IsAck(res')
                    /\ ~latestData'[ch].null
                    /\ latestData'[ch].payload = PayloadOf(ch, body)
                    /\ latestData'[ch].rep = body.rep
                    /\ \A c \in OpenClients :
                            inbox'[c] = Append(inbox[c], EventOf(ch, latestData'[ch]))
                    /\ ~HealthResponse'.latestData[ch].null
                    /\ ~LatestDataResponse'[ch].null
       /\ \A c \in Conns : (readyState[c] = "NONE" /\ readyState'[c] = "OPEN") =>
            \A ch \in Channels :
                (~latestData[ch].null /\ ~Truthy(latestData[ch].payload)) =>
                    \E i \in 1..Len(inbox'[c]) :
                        /\ inbox'[c][i].type = ch
                        /\ inbox'[c][i].payload = Wire(latestData[ch].payload)
                        /\ inbox'[c][i].timestamp = latestData[ch].timestamp]_vars

\* sent false with rep 0 was stored; the observer that connected afterwards got
\* its replay, and the status answer shows the record
C33_Witness ==
    /\ latestData["feedback_status"].payload = Bool(FALSE)
    /\ latestData["feedback_status"].rep = Num(0)
    /\ Len(inbox[1]) = 1
    /\ inbox[1][1].type = "feedback_status"
    /\ inbox[1][1].payload = Bool(FALSE)
    /\ inbox[1][1].rep = Undefined
    /\ res = Reply(200, HealthResponse)
    /\ ~res.json.latestData["feedback_status"].null
    /\ res.json.latestData["feedback_status"].payload = Bool(FALSE)

\* C34: once the server listens, no submit, connection, disconnection or fault
\* inside a handler makes the process exit: without a shutdown signal the
\* process is never exited.
C34_NoRuntimeExit == server # "exited"

\* the place of a channel in the order of the replay
ReplayRank(ch) ==
    CASE ch = "clf_data" -> 1
      [] ch = "mc_data" -> 2
      [] ch = "feedback_status" -> 3
      [] ch = "run_number" -> 4
      [] ch = "feedback_number" -> 5

\* C35: the replay of a new connection carries the populated channels in the
\* order classifier output, motion correction, feedback status, run number,
\* feedback number, whatever the order in which the channels were written.
C35_ReplayOrderFixed ==
    [][\A c \in Conns : (readyState[c] = "NONE" /\ readyState'[c] = "OPEN") =>
            /\ {inbox'[c][i].type : i \in 1..Len(inbox'[c])}
                   = {ch \in Channels : ~latestData[ch].null}
            /\ \A i, j \in 1..Len(inbox'[c]) :
                    i < j => ReplayRank(inbox'[c][i].type) < ReplayRank(inbox'[c][j].type)]_vars

\* run_number was written before clf_data, and the replay has clf_data first
C35_Witness ==
    /\ latestData["run_number"].id = 1
    /\ latestData["clf_data"].id = 2
    /\ Len(inbox[1]) = 2
    /\ inbox[1][1].type = "clf_data" /\ inbox[1][1].rep = Undefined
    /\ inbox[1][2].type = "run_number" /\ inbox[1][2].rep = Undefined

\* the response r of the five-channel server and the response q of the
\* three-channel server are the same on the common channels: a poll answer
\* with equal entries for the three channels and null for run_number and
\* feedback_number, which the three-channel answer does not have; any other
\* answer identical
SameResponse(r, q) ==
    IF r.status = 200 /\ DOMAIN r.json = Channels
    THEN /\ q.status = 200
         /\ DOMAIN q.json = BasicChannels
         /\ \A ch \in BasicChannels : q.json[ch] = r.json[ch]
         /\ \A ch \in Channels \ BasicChannels : r.json[ch].null
    ELSE q = r

\* C36: given the same submits to clf_data, mc_data and feedback_status, the
\* same connections and disconnections of observers and the same polls, the
\* two servers have given the same last response (a poll answer compared on
\* the three common channels), have sent the same messages to each observer,
\* hold the same records and the same live set, and the run_number and
\* feedback_number entries of the five-channel server are null.
C36_VariantsAgree ==
    /\ SameResponse(res, basic.res)
    /\ basic.inbox = inbox
    /\ basic.clients = clients
    /\ \A ch \in BasicChannels : basic.latestData[ch] = latestData[ch]
    /\ \A ch \in Channels \ BasicChannels : latestData[ch].null

\* both servers have stored two records, replayed the first to the two
\* observers, broadcast the second to them, and answered a poll
C36_Witness ==
    /\ basic.res.status = 200 /\ DOMAIN basic.res.json = BasicChannels
    /\ ~basic.res.json["feedback_status"].null
    /\ ~basic.res.json["mc_data"].null
    /\ basic.latestData["mc_data"].id = 2
    /\ Len(basic.inbox[1]) = 2
    /\ basic.inbox[1][1].type = "feedback_status" /\ basic.inbox[1][1].rep = Undefined
    /\ basic.inbox[1][2].type = "mc_data" /\ basic.inbox[1][2].rep = Num(1)
    /\ basic.inbox[2] = basic.inbox[1]
    /\ res.status = 200 /\ DOMAIN res.json = Channels
====
